---- MODULE Spec2Model ----
(***************************************************************************)
(* Model of the poker hand evaluator of poker/src/lib.rs: parsing of hand  *)
(* strings, classification of a hand, the category tie-breakers and the    *)
(* entry point winning_hands.                                              *)
(*                                                                         *)
(* A text is a sequence of one-character strings.  A Rust panic is the     *)
(* value Panic(msg); a computation that completes is Ok(v).  Option<T> is  *)
(* <<>> (None) or <<v>> (Some(v)).                                         *)
(***************************************************************************)
EXTENDS Integers, Sequences, FiniteSets, TLC

VARIABLES hands, pc, scored_hands, winners, err, result

vars == <<hands, pc, scored_hands, winners, err, result>>

----------------------------------------------------------------------------
(* Results and options *)

Ok(v) == [ok |-> TRUE, val |-> v]

Panic(msg) == [ok |-> FALSE, err |-> msg]

None == <<>>

Some(v) == <<v>>

(* a panic unwinds through the callers: the rest `F` runs on the value of a *)
(* computation that completed                                               *)
AndThen(r, F(_)) == IF r.ok THEN F(r.val) ELSE r

(* let v = ...; F *)
With(v, F(_)) == F(v)

Last(s) == s[Len(s)]

(* slice.sort_by is a stable sort: ascending by key, equal keys keep their order *)
StableSortBy(s, key(_)) ==
    LET n == Len(s)
        pos(i) == Cardinality({j \in 1..n : \/ key(s[j]) < key(s[i])
                                            \/ key(s[j]) = key(s[i]) /\ j < i}) + 1
    IN  <<>> \o [p \in 1..n |-> s[CHOOSE i \in 1..n : pos(i) = p]]

(* iter().filter(f).collect() *)
Filter(s, f(_)) == SelectSeq(s, f)

(* iter().position(f) and iter().rposition(f): the 0-based index, -1 for None *)
Position(s, f(_)) ==
    LET I == {i \in 1..Len(s) : f(s[i])}
    IN  IF I = {} THEN -1 ELSE (CHOOSE i \in I : \A j \in I : i <= j) - 1

RPosition(s, f(_)) ==
    LET I == {i \in 1..Len(s) : f(s[i])}
    IN  IF I = {} THEN -1 ELSE (CHOOSE i \in I : \A j \in I : i >= j) - 1

Contains(s, x) == \E i \in 1..Len(s) : s[i] = x

----------------------------------------------------------------------------
(* CardRank, CardSuite, PokerHandRank *)

LowAce == 1
Two == 2
Five == 5
Ace == 14

HighCard == 1
OnePair == 2
TwoPairs == 3
ThreeOfAKind == 4
Straight == 5
Flush == 6
FullHouse == 7
FourOfAKind == 8
StraightFlush == 9
RoyalFlush == 10

(* CardRank::from_number, for n >= 1 *)
CardRank_from_number(n) == ((n - 1) % 14) + 1

(* CardRank::from_string *)
CardRank_from_string(rank_str) ==
    CASE rank_str = <<"1">> -> Ok(LowAce)
      [] rank_str = <<"2">> -> Ok(2)
      [] rank_str = <<"3">> -> Ok(3)
      [] rank_str = <<"4">> -> Ok(4)
      [] rank_str = <<"5">> -> Ok(5)
      [] rank_str = <<"6">> -> Ok(6)
      [] rank_str = <<"7">> -> Ok(7)
      [] rank_str = <<"8">> -> Ok(8)
      [] rank_str = <<"9">> -> Ok(9)
      [] rank_str = <<"1", "0">> -> Ok(10)
      [] rank_str = <<"J">> -> Ok(11)
      [] rank_str = <<"Q">> -> Ok(12)
      [] rank_str = <<"K">> -> Ok(13)
      [] rank_str = <<"A">> -> Ok(Ace)
      [] OTHER -> Panic("Invalid rank string")

(* CardSuite::from_string *)
CardSuite_from_string(suite_str) ==
    CASE suite_str = <<"C">> -> Ok("Clubs")
      [] suite_str = <<"D">> -> Ok("Diamonds")
      [] suite_str = <<"H">> -> Ok("Hearts")
      [] suite_str = <<"S">> -> Ok("Spades")
      [] OTHER -> Panic("Invalid suite string")

(* Card::new *)
Card_new(card_str) ==
    IF ~(Len(card_str) >= 2)
    THEN Panic("Card string must be at least 2 characters long")
    ELSE AndThen(CardRank_from_string(SubSeq(card_str, 1, Len(card_str) - 1)), LAMBDA rank :
         AndThen(CardSuite_from_string(SubSeq(card_str, Len(card_str), Len(card_str))),
                 LAMBDA suite :
         Ok([rank |-> rank, suite |-> suite])))

(* Card::get_highest_card *)
Card_get_highest_card(cards) ==
    IF cards = <<>> THEN Panic("called Option::unwrap() on a None value")
    ELSE Ok(Last(StableSortBy(cards, LAMBDA c : c.rank)))

----------------------------------------------------------------------------
(* str::split_whitespace *)

IsWhitespace(ch) == ch \in {" ", "\t"}

RECURSIVE split_whitespace_from(_, _)
split_whitespace_from(raw, cur) ==
    IF raw = <<>> THEN (IF cur = <<>> THEN <<>> ELSE <<cur>>)
    ELSE IF IsWhitespace(Head(raw))
         THEN (IF cur = <<>> THEN <<>> ELSE <<cur>>) \o split_whitespace_from(Tail(raw), <<>>)
         ELSE split_whitespace_from(Tail(raw), Append(cur, Head(raw)))

split_whitespace(raw) == split_whitespace_from(raw, <<>>)

----------------------------------------------------------------------------
(* PokerHand: classification *)

IndexPanic == Panic("index out of bounds")

UnwrapPanic == Panic("called Option::unwrap() on a None value")

CountWhere(s, f(_)) == Cardinality({i \in DOMAIN s : f(s[i])})

(* PokerHand::get_suite_map *)
get_suite_map(cards) ==
    [su \in {"Clubs", "Diamonds", "Hearts", "Spades"} |->
        CountWhere(cards, LAMBDA c : c.suite = su)]

(* a rank map that counts an ace at index 14 only *)
get_rank_map_single(cards) ==
    [r \in 0..14 |-> CountWhere(cards, LAMBDA c : c.rank = r)]

(* PokerHand::get_rank_map: a [usize; 15], indices 0..14 *)
get_rank_map(cards) ==
    [r \in 0..14 |->
        CountWhere(cards, LAMBDA c : c.rank = r)
        + (IF r = 1 THEN CountWhere(cards, LAMBDA c : c.rank = 14) ELSE 0)]

(* the map as the sequence its iterator yields: element i+1 is index i *)
MapSeq(rank_map) == <<>> \o [i \in 1..15 |-> rank_map[i - 1]]

is_flush(suite_map) == \E su \in DOMAIN suite_map : suite_map[su] = 5

is_straight(rank_map) ==
    \/ /\ \E w \in 0..10 : \A i \in w..(w + 4) : rank_map[i] = 1
       /\ ~(rank_map[13] = 1 /\ rank_map[14] = 1 /\ rank_map[2] = 1)
    \/ /\ \A i \in 0..4 : rank_map[i] = 1
       /\ rank_map[14] = 1

is_high_sequence(rank_map) == \A i \in 10..14 : rank_map[i] = 1

is_three_of_a_kind(ranks) == \E i \in 0..14 : ranks[i] = 3

is_four_of_a_kind(ranks) == \E i \in 0..14 : ranks[i] = 4

is_two_pairs(ranks) == Cardinality({i \in 0..14 : ranks[i] = 2}) = 2

is_one_pair(ranks) == \E i \in 0..14 : ranks[i] = 2

is_full_house(ranks) == is_three_of_a_kind(ranks) /\ is_one_pair(ranks)

(* cards[0] .. cards[size-1] of the cards of one rank, as the grouping of that rank *)
Grouping(cards, rank, size) ==
    With(Filter(cards, LAMBDA c : c.rank = rank), LAMBDA of_rank :
    IF Len(of_rank) < size THEN IndexPanic
    ELSE Ok([rank |-> rank, cards |-> SubSeq(of_rank, 1, size)]))

(* the rank found in the rank map, kept as it is *)
AceOfLowAce_kept(rank) == rank

(* if rank == CardRank::LowAce { rank = CardRank::Ace } *)
AceOfLowAce(rank) == IF rank = LowAce THEN Ace ELSE rank

(* PokerHand::get_triplet *)
get_triplet(cards) ==
    With(get_rank_map(cards), LAMBDA ranks :
    IF is_three_of_a_kind(ranks) \/ is_full_house(ranks)
    THEN AndThen(Grouping(cards,
                     AceOfLowAce(CardRank_from_number(
                         Position(MapSeq(ranks), LAMBDA r : r = 3))), 3),
                 LAMBDA triplet : Ok(Some(triplet)))
    ELSE Ok(None))

(* PokerHand::get_quadruplet *)
get_quadruplet(cards) ==
    With(get_rank_map(cards), LAMBDA ranks :
    IF is_four_of_a_kind(ranks)
    THEN AndThen(Grouping(cards,
                     AceOfLowAce(CardRank_from_number(
                         Position(MapSeq(ranks), LAMBDA r : r = 4))), 4),
                 LAMBDA quadruplet : Ok(Some(quadruplet)))
    ELSE Ok(None))

(* PokerHand::get_pairs: Option<(Pair, Option<Pair>)> *)
get_pairs(cards) ==
    With(get_rank_map(cards), LAMBDA ranks :
    IF is_two_pairs(ranks)
    THEN AndThen(Grouping(cards,
                     CardRank_from_number(RPosition(MapSeq(ranks), LAMBDA r : r = 2)), 2),
                 LAMBDA first_pair :
         With(Position(MapSeq(ranks),
                  LAMBDA r : r = 2 /\ CardRank_from_number(r) # first_pair.rank),
              LAMBDA second_pos :
         AndThen(IF second_pos < 0 THEN UnwrapPanic
                 ELSE Grouping(cards, CardRank_from_number(second_pos), 2),
                 LAMBDA second_pair :
         Ok(Some(<<first_pair, Some(second_pair)>>)))))
    ELSE IF is_one_pair(ranks) \/ is_full_house(ranks)
    THEN AndThen(Grouping(cards,
                     CardRank_from_number(Position(MapSeq(ranks), LAMBDA r : r = 2)), 2),
                 LAMBDA pair : Ok(Some(<<pair, None>>)))
    ELSE Ok(None))

(* PokerHand::get_sequence *)
get_sequence(cards) ==
    With(StableSortBy(cards, LAMBDA c : c.rank), LAMBDA sorted :
    With(get_rank_map(sorted), LAMBDA ranks :
    IF is_straight(ranks)
    THEN With(CardRank_from_number(Position(MapSeq(ranks), LAMBDA r : r > 0)),
              LAMBDA min_rank :
         With(CardRank_from_number(RPosition(MapSeq(ranks), LAMBDA r : r > 0)),
              LAMBDA max_rank :
         IF min_rank = LowAce /\ max_rank = Ace
         THEN Ok(Some([rank |-> Five,
                       cards |-> StableSortBy([sorted EXCEPT ![5].rank = LowAce],
                                              LAMBDA c : c.rank)]))
         ELSE Ok(Some([rank |-> max_rank, cards |-> sorted]))))
    ELSE Ok(None)))

(* PokerHand::get_rank *)
get_rank(cards) ==
    With(get_rank_map(cards), LAMBDA ranks :
    With(is_flush(get_suite_map(cards)), LAMBDA flush :
    With(is_straight(ranks), LAMBDA straight :
    IF flush /\ straight
    THEN (IF is_high_sequence(ranks) THEN RoyalFlush ELSE StraightFlush)
    ELSE IF is_four_of_a_kind(ranks) THEN FourOfAKind
    ELSE IF is_full_house(ranks) THEN FullHouse
    ELSE IF flush THEN Flush
    ELSE IF straight THEN Straight
    ELSE IF is_three_of_a_kind(ranks) THEN ThreeOfAKind
    ELSE IF is_two_pairs(ranks) THEN TwoPairs
    ELSE IF is_one_pair(ranks) THEN OnePair
    ELSE HighCard)))

(* the five Card::new calls of cards_from_raw_string, in order: the first panic wins *)
RECURSIVE cards_of_tokens(_)
cards_of_tokens(card_strs) ==
    IF card_strs = <<>> THEN Ok(<<>>)
    ELSE AndThen(Card_new(Head(card_strs)), LAMBDA c :
         AndThen(cards_of_tokens(Tail(card_strs)), LAMBDA rest :
         Ok(<<c>> \o rest)))

(* PokerHand::cards_from_raw_string *)
cards_from_raw_string(raw) ==
    With(split_whitespace(raw), LAMBDA card_strs :
    IF ~(Len(card_strs) = 5) THEN Panic("Hand string must contain 5 cards")
    ELSE AndThen(cards_of_tokens(card_strs), LAMBDA cards :
         Ok(StableSortBy(cards, LAMBDA c : c.rank))))

(* PokerHand::new *)
PokerHand_new(raw) ==
    AndThen(cards_from_raw_string(raw), LAMBDA cards :
    With(get_rank(cards), LAMBDA rank :
    AndThen(IF rank \in {OnePair, TwoPairs, FullHouse}
            THEN get_pairs(cards) ELSE Ok(None), LAMBDA pairs :
    AndThen(IF rank \in {ThreeOfAKind, FullHouse}
            THEN get_triplet(cards) ELSE Ok(None), LAMBDA triplet :
    AndThen(IF rank = FourOfAKind THEN get_quadruplet(cards) ELSE Ok(None),
            LAMBDA quadruplet :
    AndThen(IF rank \in {Straight, StraightFlush, RoyalFlush}
            THEN get_sequence(cards) ELSE Ok(None), LAMBDA sequence :
    Ok([raw |-> raw, rank |-> rank, cards |-> cards,
        pairs |-> pairs, triplet |-> triplet,
        quadruplet |-> quadruplet, sequence |-> sequence])))))))

----------------------------------------------------------------------------
(* Tie-breakers *)

RECURSIVE get_cards(_)
get_cards(hs) ==
    IF hs = <<>> THEN <<>> ELSE Head(hs).cards \o get_cards(Tail(hs))

(* the hands that hold every rank of `ranks` *)
filter_hands(hs, ranks) ==
    Filter(hs, LAMBDA hand :
        \A k \in 1..Len(ranks) :
            Contains([i \in 1..5 |-> hand.cards[i].rank], ranks[k]))

(* the cards whose rank is not in `ranks` *)
filter_cards(cards, ranks) == Filter(cards, LAMBDA card : ~Contains(ranks, card.rank))

(* UntieHighestConfig::default *)
DefaultCount == 5

UntieHighestConfig_default == [count |-> DefaultCount, ranks |-> <<>>]

(* the state of untie_highest after the highest card of `all_cards` is locked: *)
(* `left` is the number of iterations the loop has still to run, `returned`   *)
(* is set by the early return, by the break and by the end of the loop        *)
LockHighest(hs, all_cards, tied_ranks, left) ==
    AndThen(Card_get_highest_card(all_cards), LAMBDA highest_card :
    Ok([hands |-> filter_hands(hs, Append(tied_ranks, highest_card.rank)),
        all_cards |-> all_cards,
        tied_ranks |-> Append(tied_ranks, highest_card.rank),
        left |-> left,
        returned |-> (left = 0)]))

(* untie_highest up to its loop *)
untie_highest_enter(hs, config) ==
    With(filter_hands(hs, config.ranks), LAMBDA hands1 :
    LockHighest(hands1, filter_cards(get_cards(hands1), config.ranks),
                config.ranks, config.count - 1))

(* an iteration that locks the highest card of the stale `all_cards` *)
untie_highest_round_stale(st) ==
    IF Len(st.hands) <= 1 THEN Ok([st EXCEPT !.returned = TRUE])
    ELSE IF Len(st.all_cards) = 0 THEN Ok([st EXCEPT !.returned = TRUE])
    ELSE LockHighest(st.hands, st.all_cards, st.tied_ranks, st.left - 1)

(* one iteration of the loop of untie_highest *)
untie_highest_round(st) ==
    IF Len(st.hands) <= 1 THEN Ok([st EXCEPT !.returned = TRUE])
    ELSE IF Len(st.all_cards) = 0 THEN Ok([st EXCEPT !.returned = TRUE])
    ELSE LockHighest(st.hands, filter_cards(get_cards(st.hands), st.tied_ranks),
                     st.tied_ranks, st.left - 1)

RECURSIVE untie_highest_loop(_)
untie_highest_loop(st) ==
    IF st.returned THEN Ok(st.hands)
    ELSE AndThen(untie_highest_round(st), LAMBDA next : untie_highest_loop(next))

(* untie_highest *)
untie_highest(hs, config) ==
    AndThen(untie_highest_enter(hs, config), LAMBDA st : untie_highest_loop(st))

(* the hands whose grouping is Some, sorted by the rank `rank_of` of it, highest first *)
ByRankDesc(hs, grouping(_), rank_of(_)) ==
    StableSortBy(Filter(hs, LAMBDA hand : grouping(hand) # None),
                 LAMBDA hand : 0 - rank_of(hand))

(* the hands of `sorted` whose rank `rank_of` is that of the first of them *)
TopOf(sorted, rank_of(_)) ==
    Filter(sorted, LAMBDA hand : rank_of(hand) = rank_of(sorted[1]))

SequenceRank(hand) == hand.sequence[1].rank

QuadrupletRank(hand) == hand.quadruplet[1].rank

TripletRank(hand) == hand.triplet[1].rank

FirstPairRank(hand) == hand.pairs[1][1].rank

SecondPair(hand) == hand.pairs[1][2]

(* untie_straight *)
untie_straight(hs) ==
    With(ByRankDesc(hs, LAMBDA hand : hand.sequence, SequenceRank), LAMBDA sequences :
    IF sequences = <<>> THEN IndexPanic
    ELSE Ok(TopOf(sequences, SequenceRank)))

(* untie_four *)
untie_four(hs) ==
    With(ByRankDesc(hs, LAMBDA hand : hand.quadruplet, QuadrupletRank),
         LAMBDA quadruplets :
    IF quadruplets = <<>> THEN IndexPanic
    ELSE untie_highest(TopOf(quadruplets, QuadrupletRank),
                       [count |-> 1, ranks |-> <<QuadrupletRank(quadruplets[1])>>]))

(* untie_one_pair *)
untie_one_pair(hs) ==
    With(ByRankDesc(hs, LAMBDA hand : hand.pairs, FirstPairRank), LAMBDA pairs :
    IF pairs = <<>> THEN IndexPanic
    ELSE untie_highest(TopOf(pairs, FirstPairRank),
                       [count |-> 3, ranks |-> <<FirstPairRank(pairs[1])>>]))

(* .filter_map(second pair's rank).max() *)
MaxSecondPairRank(pairs) ==
    With({SecondPair(pairs[i])[1].rank :
              i \in {j \in 1..Len(pairs) : SecondPair(pairs[j]) # None}},
         LAMBDA seconds :
    IF seconds = {} THEN None
    ELSE Some(CHOOSE r \in seconds : \A q \in seconds : q <= r))

(* untie_two_pairs from the first pair's rank on *)
UntieSecondPair(pairs, first_pair_rank, second_pair_rank) ==
    With(IF second_pair_rank # None
         THEN Filter(pairs, LAMBDA hand :
                  /\ SecondPair(hand) # None
                  /\ SecondPair(hand)[1].rank = second_pair_rank[1])
         ELSE pairs,
         LAMBDA kept :
    IF Len(kept) > 1
    THEN untie_highest(kept,
             [count |-> 1,
              ranks |-> <<first_pair_rank,
                          IF second_pair_rank # None THEN second_pair_rank[1]
                          ELSE first_pair_rank>>])
    ELSE Ok(kept))

(* untie_two_pairs *)
untie_two_pairs(hs) ==
    With(ByRankDesc(hs, LAMBDA hand : hand.pairs, FirstPairRank), LAMBDA sorted :
    IF sorted = <<>> THEN IndexPanic
    ELSE With(TopOf(sorted, FirstPairRank), LAMBDA pairs :
         UntieSecondPair(pairs, FirstPairRank(sorted[1]), MaxSecondPairRank(pairs))))

(* untie_three *)
untie_three(hs) ==
    IF \E i \in 1..Len(hs) : hs[i].triplet = None THEN UnwrapPanic
    ELSE With(StableSortBy(hs, LAMBDA hand : 0 - TripletRank(hand)), LAMBDA triplets :
         IF triplets = <<>> THEN IndexPanic
         ELSE untie_highest(TopOf(triplets, TripletRank),
                            [count |-> 2, ranks |-> <<TripletRank(triplets[1])>>]))

(* untie_full_house *)
untie_full_house(hs) ==
    IF \E i \in 1..Len(hs) : hs[i].triplet = None THEN UnwrapPanic
    ELSE With(StableSortBy(hs, LAMBDA hand : 0 - TripletRank(hand)), LAMBDA triplets :
         IF triplets = <<>> THEN IndexPanic
         ELSE untie_highest(TopOf(triplets, TripletRank),
                            [count |-> 2, ranks |-> <<TripletRank(triplets[1])>>]))

(* the match of untie, on hands of one rank *)
untie_of_rank(of_rank, rank) ==
    CASE rank = HighCard -> untie_highest(of_rank, UntieHighestConfig_default)
      [] rank = Flush -> untie_highest(of_rank, UntieHighestConfig_default)
      [] rank = ThreeOfAKind -> untie_three(of_rank)
      [] rank = FourOfAKind -> untie_four(of_rank)
      [] rank = OnePair -> untie_one_pair(of_rank)
      [] rank = TwoPairs -> untie_two_pairs(of_rank)
      [] rank = Straight -> untie_straight(of_rank)
      [] rank = StraightFlush -> untie_straight(of_rank)
      [] rank = FullHouse -> untie_full_house(of_rank)
      [] OTHER -> Ok(of_rank)

(* untie *)
untie(hs, rank) == untie_of_rank(Filter(hs, LAMBDA hand : hand.rank = rank), rank)

----------------------------------------------------------------------------
(* winning_hands *)

(* hands.iter().map(PokerHand::new).collect(): the first panic, in order, wins *)
RECURSIVE score_hands(_)
score_hands(hs) ==
    IF hs = <<>> THEN Ok(<<>>)
    ELSE AndThen(PokerHand_new(Head(hs)), LAMBDA h :
         AndThen(score_hands(Tail(hs)), LAMBDA rest :
         Ok(<<h>> \o rest)))

(* the rank of the first hand of the sorted hands instead of the last *)
highest_rank_first(sorted) == sorted[1].rank

(* scored_hands.last().unwrap().rank, of the sorted hands *)
highest_rank(sorted) == Last(sorted).rank

(* winners.iter().filter(rank == highest_rank).map(raw).collect() *)
raw_of_rank(untied, highest) ==
    With(Filter(untied, LAMBDA hand : hand.rank = highest), LAMBDA kept :
    <<>> \o [i \in 1..Len(kept) |-> kept[i].raw])

(* winning_hands from the sort on, without the sort *)
pick_winners_unsorted(scored) ==
    IF scored = <<>> THEN UnwrapPanic
    ELSE With(highest_rank(scored), LAMBDA highest :
         AndThen(untie(scored, highest), LAMBDA untied :
         Ok(raw_of_rank(untied, highest))))

(* winning_hands from the sort on *)
pick_winners(scored) ==
    IF scored = <<>> THEN UnwrapPanic
    ELSE With(StableSortBy(scored, LAMBDA hand : hand.rank), LAMBDA sorted :
         With(highest_rank(sorted), LAMBDA highest :
         AndThen(untie(sorted, highest), LAMBDA untied :
         Ok(raw_of_rank(untied, highest)))))

(* winning_hands *)
winning_hands(hs) == AndThen(score_hands(hs), LAMBDA scored : pick_winners(scored))

----------------------------------------------------------------------------
(* Input texts *)

(* Display for CardRank *)
CardRank_fmt(r) ==
    CASE r = 1 -> <<"A">>
      [] r = 2 -> <<"2">>
      [] r = 3 -> <<"3">>
      [] r = 4 -> <<"4">>
      [] r = 5 -> <<"5">>
      [] r = 6 -> <<"6">>
      [] r = 7 -> <<"7">>
      [] r = 8 -> <<"8">>
      [] r = 9 -> <<"9">>
      [] r = 10 -> <<"1", "0">>
      [] r = 11 -> <<"J">>
      [] r = 12 -> <<"Q">>
      [] r = 13 -> <<"K">>
      [] r = 14 -> <<"A">>

RECURSIVE JoinTokens(_)
JoinTokens(tokens) ==
    IF tokens = <<>> THEN <<>>
    ELSE IF Len(tokens) = 1 THEN tokens[1]
    ELSE tokens[1] \o <<" ">> \o JoinTokens(Tail(tokens))

(* the suits dealt to the five places of a hand that is not a flush *)
MixedSuits == <<"S", "H", "D", "C", "S">>

(* the text of the hand with the ranks `rs`, in the order of `rs` *)
HandText(rs, flush) ==
    JoinTokens([i \in 1..5 |-> CardRank_fmt(rs[i]) \o <<IF flush THEN "H" ELSE MixedSuits[i]>>])

(* bounds *)
MaxHands == 2
MaxPip == 6

Lists(S, n) == UNION {[1..k -> S] : k \in 1..n}

(* five cards of one deck over the ranks P: at most four cards of a rank *)
RankMultisets(P) ==
    {rs \in [1..5 -> P] : (\A i \in 1..4 : rs[i] >= rs[i + 1]) /\ rs[1] # rs[5]}

Distinct(rs) == \A i, j \in 1..5 : i # j => rs[i] # rs[j]

HandTexts(P) ==
    {HandText(rs, FALSE) : rs \in RankMultisets(P)}
    \cup {HandText(rs, TRUE) : rs \in {q \in RankMultisets(P) : Distinct(q)}}

Pool == (2..MaxPip) \cup {Ace}

----------------------------------------------------------------------------
(* The call winning_hands(hands) *)

TypeOK ==
    /\ pc \in {"start", "scored", "done", "panic",
               "get_rank_map", "is_straight", "get_rank", "untie_highest"}
    /\ err \in STRING

Init ==
    /\ hands \in Lists(HandTexts(Pool), MaxHands)
    /\ pc = "start"
    /\ scored_hands = <<>>
    /\ winners = <<>>
    /\ err = ""
    /\ result = <<>>

(* the construction of the hands, lines 924-927 *)
Score ==
    /\ pc = "start"
    /\ \E scored \in {score_hands(hands)} :
           /\ pc' = IF scored.ok THEN "scored" ELSE "panic"
           /\ scored_hands' = IF scored.ok THEN scored.val ELSE <<>>
           /\ err' = IF scored.ok THEN "" ELSE scored.err
    /\ UNCHANGED <<hands, winners, result>>

(* the sort, the tie-break and the result, lines 929-936 *)
Untie ==
    /\ pc = "scored"
    /\ \E picked \in {pick_winners(scored_hands)} :
           /\ pc' = IF picked.ok THEN "done" ELSE "panic"
           /\ winners' = IF picked.ok THEN picked.val ELSE <<>>
           /\ err' = IF picked.ok THEN "" ELSE picked.err
    /\ UNCHANGED <<hands, scored_hands, result>>

Next == Score \/ Untie

Spec == Init /\ [][Next]_vars

----------------------------------------------------------------------------
(* Further inputs: straights of every top rank; hands of five distinct      *)
(* ranks; full houses written triplet first or pair first; texts that break *)
(* the grammar                                                              *)

MaxGroup == 3
LowRanks == 4
HighRanks == 3
FullHouseRanks == 3
SetRanks == 4

Start ==
    /\ pc = "start"
    /\ scored_hands = <<>>
    /\ winners = <<>>
    /\ err = ""
    /\ result = <<>>

(* the straight of top rank `top`, 5 (ace low) to 14 (ace high), highest card first *)
StraightRanks(top) == [i \in 1..5 |-> IF top - i + 1 = 1 THEN Ace ELSE top - i + 1]

StraightTexts == {HandText(StraightRanks(top), flush) : top \in 5..14, flush \in BOOLEAN}

InitStraight == hands \in Lists(StraightTexts, MaxGroup) /\ Start

SpecStraight == InitStraight /\ [][Next]_vars

KickerPool == (2..(1 + LowRanks)) \cup ((15 - HighRanks)..14)

KickerTexts(flush) ==
    {HandText(rs, flush) : rs \in {q \in RankMultisets(KickerPool) : Distinct(q)}}

InitKickers ==
    /\ \E flush \in BOOLEAN : hands \in Lists(KickerTexts(flush), MaxGroup)
    /\ Start

SpecKickers == InitKickers /\ [][Next]_vars

(* a full house of three `t` and two `p` *)
FullHouseText(t, p, triplet_first) ==
    IF triplet_first
    THEN JoinTokens(<<CardRank_fmt(t) \o <<"S">>, CardRank_fmt(t) \o <<"H">>,
                      CardRank_fmt(t) \o <<"C">>, CardRank_fmt(p) \o <<"S">>,
                      CardRank_fmt(p) \o <<"H">>>>)
    ELSE JoinTokens(<<CardRank_fmt(p) \o <<"S">>, CardRank_fmt(p) \o <<"H">>,
                      CardRank_fmt(t) \o <<"S">>, CardRank_fmt(t) \o <<"H">>,
                      CardRank_fmt(t) \o <<"C">>>>)

FullHousePool == 2..(1 + FullHouseRanks)

FullHouseTexts ==
    {FullHouseText(tp[1], tp[2], f) :
        tp \in {q \in FullHousePool \X FullHousePool : q[1] # q[2]}, f \in BOOLEAN}

InitFullHouse == hands \in Lists(FullHouseTexts, MaxHands) /\ Start

SpecFullHouse == InitFullHouse /\ [][Next]_vars

(* three of a kind `t` with the kickers `k1` and `k2`; four of a kind `t` *)
(* with the kicker `k1`                                                   *)
ThreeText(t, k1, k2) ==
    JoinTokens(<<CardRank_fmt(t) \o <<"S">>, CardRank_fmt(k1) \o <<"D">>,
                 CardRank_fmt(t) \o <<"H">>, CardRank_fmt(k2) \o <<"S">>,
                 CardRank_fmt(t) \o <<"C">>>>)

FourText(t, k1) ==
    JoinTokens(<<CardRank_fmt(t) \o <<"S">>, CardRank_fmt(t) \o <<"H">>,
                 CardRank_fmt(k1) \o <<"S">>, CardRank_fmt(t) \o <<"D">>,
                 CardRank_fmt(t) \o <<"C">>>>)

SetPool == (2..(1 + SetRanks)) \cup {Ace}

ThreeTexts ==
    {ThreeText(q[1], q[2], q[3]) :
        q \in {x \in SetPool \X SetPool \X SetPool :
                  x[1] # x[2] /\ x[1] # x[3] /\ x[2] < x[3]}}

FourTexts == {FourText(q[1], q[2]) : q \in {x \in SetPool \X SetPool : x[1] # x[2]}}

InitSets ==
    /\ \E texts \in {ThreeTexts, FourTexts} : hands \in Lists(texts, MaxGroup)
    /\ Start

SpecSets == InitSets /\ [][Next]_vars

(* tokens that are no card of the interface *)
BadTokens ==
    {<<"S">>, <<"7">>, <<"X", "S">>, <<"1", "S">>, <<"1", "1", "S">>, <<"0", "S">>,
     <<"7", "X">>, <<"7", "s">>, <<"S", "7">>}

GoodTokens == {<<<<"4", "S">>, <<"5", "S">>, <<"7", "H">>, <<"8", "D">>, <<"J", "C">>>>,
               <<<<"1", "0", "H">>, <<"A", "D">>, <<"K", "C">>, <<"Q", "S">>, <<"9", "H">>>>}

(* a hand text with one token replaced, with a token less or a token more, *)
(* and with other whitespace                                               *)
VariantsOf(tokens) ==
    {JoinTokens(tokens)}
    \cup {JoinTokens([tokens EXCEPT ![i] = bad]) : i \in 1..5, bad \in BadTokens}
    \cup {JoinTokens(SubSeq(tokens, 1, 4)), JoinTokens(Append(tokens, tokens[1])), <<>>}
    \cup {<<" ">> \o JoinTokens(tokens) \o <<" ">>,
          tokens[1] \o <<" ", "\t", " ">> \o JoinTokens(Tail(tokens))}

InitTexts ==
    /\ hands \in Lists(UNION {VariantsOf(tokens) : tokens \in GoodTokens}, MaxHands)
    /\ Start

SpecTexts == InitTexts /\ [][Next]_vars

----------------------------------------------------------------------------
(* The card token grammar of the interface: <rank><suit>, five tokens a hand *)

ExternalRanks ==
    {<<"2">>, <<"3">>, <<"4">>, <<"5">>, <<"6">>, <<"7">>, <<"8">>, <<"9">>,
     <<"1", "0">>, <<"J">>, <<"Q">>, <<"K">>, <<"A">>}

ExternalSuits == {"C", "D", "H", "S"}

WellFormedToken(tok) ==
    /\ Len(tok) >= 2
    /\ SubSeq(tok, 1, Len(tok) - 1) \in ExternalRanks
    /\ tok[Len(tok)] \in ExternalSuits

WellFormedHand(raw) ==
    With(split_whitespace(raw), LAMBDA tokens :
    Len(tokens) = 5 /\ \A i \in 1..5 : WellFormedToken(tokens[i]))

WellFormedInput == \A i \in DOMAIN hands : WellFormedHand(hands[i])

Terminated == pc \in {"done", "panic"}

(* the ranks of a well-formed hand, 2..14, and how often each occurs *)
TextRanks(raw) ==
    With(split_whitespace(raw), LAMBDA tokens :
    <<>> \o [i \in 1..5 |->
                CardRank_from_string(SubSeq(tokens[i], 1, Len(tokens[i]) - 1)).val])

Times(rs, r) == Cardinality({i \in 1..5 : rs[i] = r})

(* the ranks that occur exactly n times *)
RanksOfCount(rs, n) == {r \in 2..14 : Times(rs, r) = n}

SeqToSet(s) == {s[i] : i \in DOMAIN s}

----------------------------------------------------------------------------
(* C1: winning_hands of a list of exactly one well-formed hand completes and *)
(* returns exactly that hand, whatever its ranks (a pair of aces included).  *)
C1_SingleHandReturned ==
    (Terminated /\ Len(hands) = 1 /\ WellFormedInput)
        => /\ pc = "done"
           /\ winners = hands

(* C2: every string winning_hands returns is one of the input strings, and   *)
(* the category of its hand is the greatest category among the input hands.  *)
C2_WinnersOfMaxCategory ==
    (pc = "done" /\ WellFormedInput)
        => \A w \in DOMAIN winners :
              \E j \in DOMAIN hands :
                  /\ hands[j] = winners[w]
                  /\ \A k \in DOMAIN scored_hands :
                         scored_hands[k].rank <= scored_hands[j].rank

(* a call of two hands of different categories that returned a winner *)
C2_Witness ==
    /\ pc = "done"
    /\ Len(hands) = 2
    /\ scored_hands[1].rank # scored_hands[2].rank
    /\ Len(winners) = 1

(* C3: on well-formed input winning_hands never panics, and it returns at    *)
(* least one winner.                                                         *)
C3_TotalOnWellFormed ==
    (Terminated /\ WellFormedInput)
        => /\ pc = "done"
           /\ Len(winners) >= 1

----------------------------------------------------------------------------
(* Standard five-card comparison, from the ranks of the texts *)

IsStraightRanks(rs) ==
    /\ \A i, j \in 1..5 : i # j => rs[i] # rs[j]
    /\ \/ SeqToSet(rs) = {14, 2, 3, 4, 5}
       \/ \A i, j \in 1..5 : rs[i] - rs[j] <= 4

IsFlushText(raw) ==
    With(split_whitespace(raw), LAMBDA tokens :
    \A i, j \in 1..5 : Last(tokens[i]) = Last(tokens[j]))

(* the rank of the high card of a straight: 5 for the run A-2-3-4-5 *)
StraightTop(rs) ==
    IF SeqToSet(rs) = {14, 2, 3, 4, 5} THEN 5
    ELSE CHOOSE r \in SeqToSet(rs) : \A q \in SeqToSet(rs) : q <= r

(* the ranks in the order they are compared: the rank held most often first, *)
(* then the higher rank first                                                 *)
CompareOrder(rs) == StableSortBy(rs, LAMBDA r : 0 - (100 * Times(rs, r) + r))

KeyOfRanks(rs) == IF IsStraightRanks(rs) THEN <<StraightTop(rs)>> ELSE CompareOrder(rs)

PokerKey(raw) == KeyOfRanks(TextRanks(raw))

(* a is strictly weaker than b, for two keys of one category *)
KeyLess(a, b) ==
    \E i \in DOMAIN a : a[i] < b[i] /\ \A j \in 1..(i - 1) : a[j] = b[j]

Keys == <<>> \o [i \in DOMAIN hands |-> PokerKey(hands[i])]

(* the places of the input hands that no input hand beats *)
BestOf(keys) == {i \in DOMAIN keys : \A j \in DOMAIN keys : ~KeyLess(keys[i], keys[j])}

(* the winners are exactly the input hands at the places `best` *)
WinnersAre(best) ==
    /\ SeqToSet(winners) = {hands[i] : i \in best}
    /\ Len(winners) = Cardinality(best)

WinnersAreBest == WinnersAre(BestOf(Keys))

SameMembers(a, b) == SeqToSet(a) = SeqToSet(b) /\ Len(a) = Len(b)

RankBag(rs) == [r \in 2..14 |-> Times(rs, r)]

TopCategory(j) == \A k \in DOMAIN scored_hands : scored_hands[k].rank <= scored_hands[j].rank

TiesAndWeaker(keys) ==
    /\ \A a, b \in DOMAIN hands :
           (hands[a] \in SeqToSet(winners) /\ hands[b] \in SeqToSet(winners))
               => /\ scored_hands[a].rank = scored_hands[b].rank
                  /\ RankBag(TextRanks(hands[a])) = RankBag(TextRanks(hands[b]))
    /\ \A j \in DOMAIN hands :
           (TopCategory(j) /\ hands[j] \notin SeqToSet(winners))
               => \A w \in DOMAIN hands :
                      hands[w] \in SeqToSet(winners) => KeyLess(keys[j], keys[w])

(* C4: the hands returned together are true ties (same category, same        *)
(* multiset of ranks), and every input hand of the top category that is not  *)
(* returned is strictly weaker than the returned ones.                       *)
C4_TrueTiesMaximal == (pc = "done" /\ WellFormedInput) => TiesAndWeaker(Keys)

(* C5: the winners of every permutation of the input are the same strings,   *)
(* as many of them, and a call that fails fails under every permutation.     *)
C5_OrderInsensitive ==
    Terminated
        => \A p \in Permutations(DOMAIN hands) :
              \E r \in {winning_hands(<<>> \o [i \in DOMAIN hands |-> hands[p[i]]])} :
                  /\ r.ok <=> pc = "done"
                  /\ r.ok => SameMembers(r.val, winners)

(* two different hands of one category, of which the second wins *)
C5_Witness ==
    /\ pc = "done"
    /\ Len(hands) = 2
    /\ hands[1] # hands[2]
    /\ scored_hands[1].rank = scored_hands[2].rank
    /\ winners = <<hands[2]>>

IsFullHouseRanks(rs) == RanksOfCount(rs, 3) # {} /\ RanksOfCount(rs, 2) # {}

FullHousePair(r1, r2) ==
    /\ IsFullHouseRanks(r1) /\ IsFullHouseRanks(r2)
    /\ RanksOfCount(r1, 3) = RanksOfCount(r2, 3)

(* C6: of two full houses of one triplet rank, both are returned when their  *)
(* pair ranks are equal and only the one of the higher pair rank otherwise.  *)
C6_FullHouseByPair ==
    (/\ Terminated
     /\ Len(hands) = 2
     /\ WellFormedInput
     /\ FullHousePair(TextRanks(hands[1]), TextRanks(hands[2])))
        => /\ pc = "done"
           /\ WinnersAreBest

AllStraights(keys) == \A i \in DOMAIN keys : Len(keys[i]) = 1

(* C7: of hands that are all straights, or all straight flushes, exactly the *)
(* hands of the greatest top rank are returned, A-2-3-4-5 counting as 5 and  *)
(* 10-J-Q-K-A as ace.                                                        *)
C7_StraightByTopRank ==
    (/\ pc = "done"
     /\ WellFormedInput
     /\ AllStraights(Keys)
     /\ \/ \A k \in DOMAIN scored_hands : scored_hands[k].rank = Straight
        \/ \A k \in DOMAIN scored_hands : scored_hands[k].rank = StraightFlush)
        => WinnersAreBest

(* keys of five distinct ranks that are no straight *)
AllKickers(keys) ==
    \A i \in DOMAIN keys :
        Len(keys[i]) = 5 /\ \A a, b \in 1..5 : a # b => keys[i][a] # keys[i][b]

KickerGroup ==
    /\ WellFormedInput
    /\ AllKickers(Keys)
    /\ \/ \A i \in DOMAIN hands : IsFlushText(hands[i])
       \/ \A i \in DOMAIN hands : ~IsFlushText(hands[i])

(* C8: of hands of five distinct ranks that are all high cards, or all       *)
(* flushes, exactly the hands whose ranks in descending order are greatest   *)
(* lexicographically are returned; equal hands are returned together.        *)
C8_HighCardLexicographic ==
    (Terminated /\ KickerGroup) => (pc = "done" /\ WinnersAreBest)

ThirdKickerDecides(keys) ==
    /\ \A i \in 1..3 : keys[i][1] = keys[1][1] /\ keys[i][2] = keys[1][2]
    /\ keys[1][3] < keys[2][3]
    /\ keys[3][3] < keys[2][3]

(* three hands that agree on their two highest cards: one wins on the third *)
C8_Witness ==
    /\ pc = "done"
    /\ Len(hands) = 3
    /\ KickerGroup
    /\ ThirdKickerDecides(Keys)
    /\ winners = <<hands[2]>>

(* keys of three of a kind, or keys of four of a kind *)
AllSets(keys) ==
    /\ \A i \in DOMAIN keys : Len(keys[i]) = 5
    /\ \/ \A i \in DOMAIN keys : /\ keys[i][1] = keys[i][3] /\ keys[i][3] # keys[i][4]
                                 /\ keys[i][4] # keys[i][5]
       \/ \A i \in DOMAIN keys : keys[i][1] = keys[i][4]

SetGroup == WellFormedInput /\ AllSets(Keys)

(* C9: of hands that are all three of a kind, or all four of a kind, exactly *)
(* the hands of the highest triplet (quadruplet) rank and, among them, of    *)
(* the greatest kickers are returned, aces ranking highest.                  *)
C9_SetThenKickers ==
    (Terminated /\ SetGroup) => (pc = "done" /\ WinnersAreBest)

AcesBeatLower(keys) ==
    /\ keys[1][1] = Ace /\ keys[1][3] = Ace
    /\ keys[2][1] # Ace

(* three or four aces beat three or four of a lower rank *)
C9_Witness ==
    /\ pc = "done"
    /\ Len(hands) = 2
    /\ SetGroup
    /\ AcesBeatLower(Keys)
    /\ winners = <<hands[1]>>

(* C10: when a hand of the input is not five card tokens of the grammar, the *)
(* call fails and returns no winners; the hand is never skipped.             *)
C10_MalformedAborts == pc \in {"scored", "done"} => WellFormedInput

----------------------------------------------------------------------------
(* Card tokens *)

RankSubstring(tok) == SubSeq(tok, 1, Len(tok) - 1)

UnknownRank(tok) == Len(tok) >= 2 /\ RankSubstring(tok) \notin ExternalRanks

(* the tokens of the input hands whose rank substring is no rank of the interface *)
UnknownRankTokens ==
    {tok \in UNION {SeqToSet(split_whitespace(hands[i])) : i \in DOMAIN hands} :
        UnknownRank(tok)}

(* C11: a token whose rank substring is none of 2..10, J, Q, K, A is not     *)
(* parsed into a card, and winning_hands on a hand holding it fails: it      *)
(* neither scores the hands nor returns winners.                             *)
C11_UnknownRankRejected ==
    pc # "start"
        => \A tok \in UnknownRankTokens :
              /\ ~Card_new(tok).ok
              /\ pc = "panic"

----------------------------------------------------------------------------
(* The classification of one hand: get_rank_map, is_straight and get_rank *)
(* applied to the five cards of every hand over the ranks 2..Ace          *)

InitClassify == hands \in Lists(HandTexts(Two..Ace), 1) /\ Start

GetRankMap ==
    /\ pc = "start"
    /\ \E cards \in {cards_from_raw_string(hands[1])} :
           /\ cards.ok
           /\ result' = get_rank_map(cards.val)
    /\ pc' = "get_rank_map"
    /\ UNCHANGED <<hands, scored_hands, winners, err>>

(* is_straight of the rank map get_rank_map returned *)
IsStraight ==
    /\ pc = "get_rank_map"
    /\ result' = is_straight(result)
    /\ pc' = "is_straight"
    /\ UNCHANGED <<hands, scored_hands, winners, err>>

GetRank ==
    /\ pc = "start"
    /\ \E cards \in {cards_from_raw_string(hands[1])} :
           /\ cards.ok
           /\ result' = get_rank(cards.val)
    /\ pc' = "get_rank"
    /\ UNCHANGED <<hands, scored_hands, winners, err>>

NextClassify == GetRankMap \/ IsStraight \/ GetRank

SpecClassify == InitClassify /\ [][NextClassify]_vars

----------------------------------------------------------------------------
(* The category of five cards by the rules of the interface, first match wins *)

CategoryOf(rs, flush) ==
    IF flush /\ IsStraightRanks(rs)
    THEN (IF SeqToSet(rs) = 10..14 THEN RoyalFlush ELSE StraightFlush)
    ELSE IF RanksOfCount(rs, 4) # {} THEN FourOfAKind
    ELSE IF RanksOfCount(rs, 3) # {} /\ RanksOfCount(rs, 2) # {} THEN FullHouse
    ELSE IF flush THEN Flush
    ELSE IF IsStraightRanks(rs) THEN Straight
    ELSE IF RanksOfCount(rs, 3) # {} THEN ThreeOfAKind
    ELSE IF Cardinality(RanksOfCount(rs, 2)) = 2 THEN TwoPairs
    ELSE IF Cardinality(RanksOfCount(rs, 2)) = 1 THEN OnePair
    ELSE HighCard

(* C12: get_rank returns the category of the first matching rule; two pairs  *)
(* are two distinct ranks held twice and one pair is one rank held twice,    *)
(* the ace being one rank.                                                   *)
C12_FirstMatchingRule ==
    pc = "get_rank" => result = CategoryOf(TextRanks(hands[1]), IsFlushText(hands[1]))

(* C13: is_straight of the rank map of a hand is true exactly when the five  *)
(* ranks are distinct and consecutive, the ace closing the run 10-J-Q-K-A or *)
(* opening the run A-2-3-4-5 and never standing inside a run.                *)
C13_StraightIffRun ==
    pc = "is_straight" => (result <=> IsStraightRanks(TextRanks(hands[1])))

(* the wrap-around hand K-A-2-3-4 is no straight *)
C13_Witness ==
    /\ pc = "is_straight"
    /\ SeqToSet(TextRanks(hands[1])) = {13, 14, 2, 3, 4}
    /\ Distinct(TextRanks(hands[1]))
    /\ result = FALSE

RECURSIVE SumUpTo(_, _)
SumUpTo(rank_map, i) == IF i < 0 THEN 0 ELSE rank_map[i] + SumUpTo(rank_map, i - 1)

(* C16: the counts of the rank map get_rank_map builds of a hand sum to 5. *)
C16_RankMapSumsToFive == pc = "get_rank_map" => SumUpTo(result, 14) = 5

----------------------------------------------------------------------------
(* Groups of hands of two pairs *)

(* the pairs `hi` and `lo` with the leftover card `k` *)
TwoPairsText(hi, lo, k) ==
    JoinTokens(<<CardRank_fmt(lo) \o <<"D">>, CardRank_fmt(hi) \o <<"S">>,
                 CardRank_fmt(k) \o <<"S">>, CardRank_fmt(hi) \o <<"H">>,
                 CardRank_fmt(lo) \o <<"C">>>>)

TwoPairsTexts ==
    {TwoPairsText(q[1], q[2], q[3]) :
        q \in {x \in SetPool \X SetPool \X SetPool :
                  x[1] > x[2] /\ x[3] # x[1] /\ x[3] # x[2]}}

InitTwoPairs == hands \in Lists(TwoPairsTexts, MaxGroup) /\ Start

SpecTwoPairs == InitTwoPairs /\ [][Next]_vars

(* keys of two pairs and a leftover card *)
AllTwoPairs(keys) ==
    \A i \in DOMAIN keys :
        /\ Len(keys[i]) = 5
        /\ keys[i][1] = keys[i][2] /\ keys[i][3] = keys[i][4]
        /\ keys[i][1] # keys[i][3]
        /\ keys[i][5] # keys[i][1] /\ keys[i][5] # keys[i][3]

TwoPairsGroup == WellFormedInput /\ AllTwoPairs(Keys)

(* the first pair every scored hand stores is the higher of its two *)
FirstPairHigher ==
    \A k \in DOMAIN scored_hands :
        /\ scored_hands[k].pairs # None
        /\ SecondPair(scored_hands[k]) # None
        /\ FirstPairRank(scored_hands[k]) > SecondPair(scored_hands[k])[1].rank

(* C14: of hands that all hold two pairs, exactly the hands of the highest   *)
(* higher pair, then of the highest lower pair, then of the highest leftover *)
(* card are returned, equal hands together; the first pair a hand stores is  *)
(* the higher of its two.                                                    *)
C14_TwoPairsOrder ==
    (Terminated /\ TwoPairsGroup) => (pc = "done" /\ FirstPairHigher /\ WinnersAreBest)

----------------------------------------------------------------------------
(* Kicker elimination, round by round: untie_highest as its callers start it *)
(* on hands of one category that share the rank of their grouping            *)

AllOf(hs, categories) == \A i \in DOMAIN hs : hs[i].rank \in categories

(* the configuration untie, untie_four, untie_three and untie_full_house pass *)
CallerConfigs(hs) ==
    IF AllOf(hs, {HighCard}) \/ AllOf(hs, {Flush})
    THEN {UntieHighestConfig_default}
    ELSE IF AllOf(hs, {FourOfAKind})
    THEN {[count |-> 1, ranks |-> <<QuadrupletRank(hs[1])>>] :
             x \in {y \in {1} : \A i \in DOMAIN hs :
                                   QuadrupletRank(hs[i]) = QuadrupletRank(hs[1])}}
    ELSE IF AllOf(hs, {ThreeOfAKind}) \/ AllOf(hs, {FullHouse})
    THEN {[count |-> 2, ranks |-> <<TripletRank(hs[1])>>] :
             x \in {y \in {1} : \A i \in DOMAIN hs :
                                   TripletRank(hs[i]) = TripletRank(hs[1])}}
    ELSE {}

InitUntieHighest ==
    /\ \E texts \in {FullHouseTexts, ThreeTexts, FourTexts, KickerTexts(FALSE)} :
           hands \in Lists(texts, MaxHands)
    /\ Start

(* untie_highest up to its loop, lines 709-725 *)
UntieHighestEnter ==
    /\ pc = "scored"
    /\ \E config \in CallerConfigs(scored_hands) :
       \E st \in {untie_highest_enter(scored_hands, config)} :
           /\ pc' = IF st.ok THEN "untie_highest" ELSE "panic"
           /\ result' = IF st.ok THEN [st |-> st.val, config |-> config] ELSE <<>>
           /\ err' = IF st.ok THEN "" ELSE st.err
    /\ UNCHANGED <<hands, scored_hands, winners>>

(* one iteration of the loop, lines 728-742 *)
UntieHighestRound ==
    /\ pc = "untie_highest"
    /\ ~result.st.returned
    /\ \E st \in {untie_highest_round(result.st)} :
           /\ pc' = IF st.ok THEN "untie_highest" ELSE "panic"
           /\ result' = IF st.ok THEN [result EXCEPT !.st = st.val] ELSE <<>>
           /\ err' = IF st.ok THEN "" ELSE st.err
    /\ UNCHANGED <<hands, scored_hands, winners>>

(* the hands untie_highest returns, lines 730 and 743 *)
UntieHighestReturn ==
    /\ pc = "untie_highest"
    /\ result.st.returned
    /\ pc' = "done"
    /\ winners' = raw_of_rank(result.st.hands, scored_hands[1].rank)
    /\ UNCHANGED <<hands, scored_hands, err, result>>

NextUntieHighest == Score \/ UntieHighestEnter \/ UntieHighestRound \/ UntieHighestReturn

SpecUntieHighest == InitUntieHighest /\ [][NextUntieHighest]_vars

(* the ranks locked since untie_highest was entered *)
LockedRounds == Len(result.st.tied_ranks) - Len(result.config.ranks)

NoRankTwice(ranks) == \A i, j \in DOMAIN ranks : i # j => ranks[i] # ranks[j]

(* C15: kicker elimination on a non-empty candidate set ends with a result   *)
(* after at most `count` rounds: it never takes the highest card of an empty *)
(* pool, every round locks a rank not locked before, and it returns once at  *)
(* most one candidate remains or `count` ranks are locked.                   *)
C15_EliminationTerminates ==
    /\ pc # "panic"
    /\ pc = "untie_highest"
          => /\ LockedRounds <= result.config.count
             /\ NoRankTwice(result.st.tied_ranks)
             /\ LockedRounds = result.config.count => result.st.returned
             /\ result.st.hands # <<>>

====
